---- MODULE Spec2Model ----
(***************************************************************************)
(* State-machine model of ctkCmdLineModuleProcessTask and                  *)
(* ctkCmdLineModuleProcessWatcher                                          *)
(* (Libs/CommandLineModules/Backend/LocalProcess/                          *)
(* ctkCmdLineModuleProcessTask.cpp).                                       *)
(*                                                                         *)
(* One task is modelled: a caller thread (start, cancel, pause, resume on  *)
(* the future), one pool worker executing run(), the external process, and *)
(* the watcher object whose slots run inside the worker's local event      *)
(* loop.  run() is split at the points where another thread can observe    *)
(* the future between two of its statements.  The calls the task makes on  *)
(* its QFutureInterface base are modelled by what QFutureInterfaceBase     *)
(* does with them (state flags, the keep-the-maximum progress update, the  *)
(* exception store).                                                       *)
(***************************************************************************)
EXTENDS Integers, Sequences, FiniteSets, TLC

VARIABLES
  unixBuild,            \* Q_OS_UNIX is defined for this build
  pc,                   \* position of the task: before start(), queued, inside run()
  fi,                   \* the task's QFutureInterface state (state flags, progress, exception)
  progressValue,        \* ctkCmdLineModuleProcessWatcher::progressValue
  processPaused,        \* ctkCmdLineModuleProcessWatcher::processPaused
  callouts,             \* call-out events posted to futureWatcher, not yet handled
  pendingCallOutEvents, \* call-out events futureWatcher holds back while the future is paused
  sending,              \* call-out events being sent by the current futureWatcher event
  procAlive,            \* the external process exists (QProcess has a valid pid)
  procStopped,          \* the external process is suspended by SIGSTOP
  termSent,             \* SIGTERM has been sent to the external process
  procError,            \* QProcess::error()
  exitCode,             \* QProcess::exitCode()
  stderrBuf,            \* unread content of the process's standard error channel
  stderrText,           \* what the process wrote to standard error in total
  notifPending,         \* the failed-to-start notification is waiting for the event loop
  startCalls,           \* number of process.start() calls
  termCalls,            \* number of process.terminate() calls
  sigLog,               \* stop/continue signals delivered successfully, in order
  strayKill,            \* a stop/continue signal was issued while no process was alive
  killFailed,           \* the signal the most recent kill() call failed to deliver, or "none"
  requeued,             \* start() was called again and that execution of run() has not begun
  lastEv,               \* the last event of the progress event source handled
  evCount,              \* number of events of the progress event source handled
  diagnostics           \* messages written by filterXmlError()

vars == <<unixBuild, pc, fi, progressValue, processPaused, callouts,
          pendingCallOutEvents, sending, procAlive, procStopped, termSent,
          procError, exitCode, stderrBuf, stderrText, notifPending, startCalls,
          termCalls, sigLog, strayKill, killFailed, requeued, lastEv, evCount, diagnostics>>

(***************************************************************************)
(* Bounds of the model.                                                    *)
(***************************************************************************)
\* events of the progress event source per run
MaxEvents == 2
\* call-out events queued at the watcher at a time
MaxCallOuts == 2
\* a filter-progress fraction is Num / FracDen with Num in 0..FracDen
FracDen == 3
\* stop/continue signals recorded in sigLog
MaxSignals == 3
\* process.start() calls of one task, when start() may be called again
MaxStarts == 2

(***************************************************************************)
(* Program constants.                                                      *)
(***************************************************************************)
ProgressMin == 0
ProgressMax == 1000
ProgressLow == 1
ProgressHigh == 999
ProgressScale == 1000

location == "prog"
Names == {"a"}
XmlErrors == {"bad xml"}
ExitCodes == {0, 2}
StderrTexts == {"", "boom"}
ProcessErrors == {"UnknownError", "FailedToStart", "Crashed"}

\* QProcess::errorString() for a process error
errorString(e) ==
  IF e = "FailedToStart" THEN "Process failed to start"
  ELSE IF e = "Crashed" THEN "Process crashed"
  ELSE "Unknown error"

NoException == [has |-> FALSE, location |-> "", code |-> 0, text |-> ""]

\* ctkCmdLineModuleRunException(location, exitCode, text)
ctkCmdLineModuleRunException(loc, code, text) ==
  [has |-> TRUE, location |-> loc, code |-> code, text |-> text]

(***************************************************************************)
(* The future interface the task derives from.                             *)
(***************************************************************************)
isCanceled(f) == "Canceled" \in f.state
isPaused(f) == "Paused" \in f.state
isFinished(f) == "Finished" \in f.state

\* reportStarted(): no effect on a started, canceled or finished future
reportStarted(f) ==
  IF f.state \cap {"Started", "Canceled", "Finished"} # {}
  THEN f
  ELSE [f EXCEPT !.state = {"Started", "Running"}]

\* reportFinished(): Running is replaced by Finished, once
reportFinished(f) ==
  IF isFinished(f)
  THEN f
  ELSE [f EXCEPT !.state = (@ \ {"Running"}) \cup {"Finished"}]

\* reportException(e): ignored on a canceled or finished future; otherwise
\* the exception is stored and the future becomes canceled
reportException(f, e) ==
  IF isCanceled(f) \/ isFinished(f)
  THEN f
  ELSE [f EXCEPT !.exception = e, !.state = @ \cup {"Canceled"}]

\* faulty variant: the progress value is set even when it does not increase
setProgressValueAndTextAlways(f, v, t) ==
  IF isCanceled(f) \/ isFinished(f)
  THEN f
  ELSE [f EXCEPT !.progressValue = v, !.progressText = t]

\* setProgressValueAndText(v, t): ignored unless v exceeds the current value,
\* and ignored on a canceled or finished future
setProgressValueAndText(f, v, t) ==
  IF f.progressValue >= v \/ isCanceled(f) \/ isFinished(f)
  THEN f
  ELSE [f EXCEPT !.progressValue = v, !.progressText = t]

\* setProgressValue(v) is setProgressValueAndText(v, QString())
setProgressValue(f, v) == setProgressValueAndText(f, v, "")

\* QFuture::cancel(): once; Paused is replaced by Canceled
cancel(f) ==
  IF isCanceled(f)
  THEN f
  ELSE [f EXCEPT !.state = (@ \ {"Paused"}) \cup {"Canceled"}]

\* setPaused(b)
setPaused(f, b) ==
  IF b
  THEN [f EXCEPT !.state = @ \cup {"Paused"}]
  ELSE [f EXCEPT !.state = @ \ {"Paused"}]

\* the watcher's thread handles call-out events only inside localLoop.exec(); an
\* event posted to the watcher after the loop has returned is discarded with it
watcherListening == pc = "waiting"

\* a call-out event is queued for the watcher while it listens
post(q, ev) == IF watcherListening THEN Append(q, ev) ELSE q

\* call-out events the watcher has not yet sent
inFlight == Len(callouts) + Len(pendingCallOutEvents) + Len(sending)
canPost == ~watcherListening \/ inFlight < MaxCallOuts

(***************************************************************************)
(* Progress normalisation (ctkCmdLineModuleProcessWatcher).                *)
(***************************************************************************)
\* static_cast<int>(progress * 1000.0f) for progress = num / FracDen >= 0
scaled(num) == (num * ProgressScale) \div FracDen

\* faulty variant: the upper limit 999 is not enforced
updateProgressNoUpperClamp(num) ==
  LET v == scaled(num)
  IN IF v < ProgressLow THEN ProgressLow ELSE v

\* faulty variant: the lower limit 1 is not enforced
updateProgressNoLowerClamp(num) ==
  LET v == scaled(num)
  IN IF v > ProgressHigh THEN ProgressHigh ELSE v

\* updateProgress(progress): the new value of progressValue
updateProgress(num) ==
  LET v == scaled(num)
      lo == IF v < ProgressLow THEN ProgressLow ELSE v
  IN IF lo > ProgressHigh THEN ProgressHigh ELSE lo

\* incrementProgress(): the new value of progressValue
incrementProgress(cur) ==
  IF cur + 1 > ProgressHigh THEN ProgressHigh ELSE cur + 1

TypeOK ==
  /\ unixBuild \in BOOLEAN
  /\ pc \in {"pending", "queued", "spawn", "attach", "waiting", "classify",
             "final", "finish", "done"}
  /\ fi.state \subseteq {"Started", "Running", "Canceled", "Paused", "Finished"}
  /\ fi.progressValue \in Int
  /\ progressValue \in Int
  /\ processPaused \in BOOLEAN
  /\ procError \in ProcessErrors
  /\ exitCode \in ExitCodes

Init ==
  /\ unixBuild \in BOOLEAN
  /\ pc = "pending"
  /\ fi = [state |-> {}, progressValue |-> ProgressMin, progressText |-> "",
           exception |-> NoException]
  /\ progressValue = 0
  /\ processPaused = FALSE
  /\ callouts = <<>>
  /\ pendingCallOutEvents = <<>>
  /\ sending = <<>>
  /\ procAlive = FALSE
  /\ procStopped = FALSE
  /\ termSent = FALSE
  /\ procError = "UnknownError"
  /\ exitCode = 0
  /\ stderrBuf = ""
  /\ stderrText = ""
  /\ notifPending = FALSE
  /\ startCalls = 0
  /\ termCalls = 0
  /\ sigLog = <<>>
  /\ strayKill = FALSE
  /\ killFailed = "none"
  /\ requeued = FALSE
  /\ lastEv = [kind |-> "none", num |-> 0, name |-> ""]
  /\ evCount = 0
  /\ diagnostics = {}


(***************************************************************************)
(* The caller's thread: the task's start() and the QFuture operations.     *)
(***************************************************************************)
\* variables no action of the caller's thread changes, apart from pc
callerFrame ==
  UNCHANGED <<unixBuild, requeued, progressValue, processPaused, pendingCallOutEvents,
              sending, procAlive, procStopped, termSent, procError, exitCode,
              stderrBuf, stderrText, notifPending, startCalls, termCalls, sigLog,
              strayKill, killFailed, lastEv, evCount, diagnostics>>

\* the constructor calls setCanPause(true) under Q_OS_UNIX only
canPause == unixBuild

\* ctkCmdLineModuleProcessTask::start(): reportStarted(), then the task is queued
start ==
  /\ pc = "pending"
  /\ fi' = reportStarted(fi)
  /\ pc' = "queued"
  /\ UNCHANGED <<callouts>>
  /\ callerFrame

\* QFuture::cancel() on the task's future; the watcher is told once
futureCancel ==
  /\ ~isCanceled(fi)
  /\ canPost
  /\ fi' = cancel(fi)
  /\ callouts' = post(callouts, "Canceled")
  /\ UNCHANGED pc
  /\ callerFrame

\* QFuture::pause() on the task's future
futurePause ==
  /\ ~isPaused(fi)
  /\ fi' = setPaused(fi, TRUE)
  /\ UNCHANGED <<pc, callouts>>
  /\ callerFrame

\* QFuture::resume() on the task's future; the watcher is told
futureResume ==
  /\ canPost
  /\ fi' = setPaused(fi, FALSE)
  /\ callouts' = post(callouts, "Resumed")
  /\ UNCHANGED pc
  /\ callerFrame

(***************************************************************************)
(* Slots of ctkCmdLineModuleProcessWatcher.  Each states the new values of *)
(* slotVars; the action that invokes it states the rest.                   *)
(***************************************************************************)
slotVars == <<fi, processPaused, procStopped, termSent, termCalls, sigLog,
              strayKill, killFailed, callouts>>

\* process.pid() is the pid of a process of this task
pidValid == procAlive \/ notifPending

\* the last MaxSignals delivered signals
logSignal(s) ==
  LET l == Append(sigLog, s)
  IN IF Len(l) > MaxSignals THEN Tail(l) ELSE l

\* faulty variant: processPaused is not consulted before SIGSTOP is sent
pauseProcessNoFlagCheck ==
  IF ~isPaused(fi)
  THEN UNCHANGED slotVars
  ELSE \E delivered \in BOOLEAN :
         /\ strayKill' = (strayKill \/ ~pidValid)
         /\ killFailed' = IF delivered THEN "none" ELSE "STOP"
         /\ IF delivered
            THEN /\ processPaused' = TRUE
                 /\ procStopped' = procAlive
                 /\ sigLog' = logSignal("STOP")
                 /\ UNCHANGED <<fi, callouts>>
            ELSE /\ canPost
                 /\ fi' = setPaused(fi, FALSE)
                 /\ callouts' = post(callouts, "Resumed")
                 /\ UNCHANGED <<processPaused, procStopped, sigLog>>
         /\ UNCHANGED <<termSent, termCalls>>

\* faulty variant: the poll does not act on a pause request
pauseProcessIgnoresRequest == UNCHANGED slotVars

\* faulty variant: a failed SIGSTOP does not take the pause request back
pauseProcessNoRollback ==
  IF processPaused \/ ~isPaused(fi)
  THEN UNCHANGED slotVars
  ELSE \E delivered \in BOOLEAN :
         /\ strayKill' = (strayKill \/ ~pidValid)
         /\ killFailed' = IF delivered THEN "none" ELSE "STOP"
         /\ IF delivered
            THEN /\ processPaused' = TRUE
                 /\ procStopped' = procAlive
                 /\ sigLog' = logSignal("STOP")
                 /\ UNCHANGED <<fi, callouts>>
            ELSE UNCHANGED <<fi, callouts, processPaused, procStopped, sigLog>>
         /\ UNCHANGED <<termSent, termCalls>>

\* pauseProcess(): SIGSTOP, unless already paused or no pause is requested
pauseProcess ==
  IF processPaused \/ ~isPaused(fi)
  THEN UNCHANGED slotVars
  ELSE \E delivered \in BOOLEAN :
         /\ strayKill' = (strayKill \/ ~pidValid)
         /\ killFailed' = IF delivered THEN "none" ELSE "STOP"
         /\ IF delivered
            THEN /\ processPaused' = TRUE
                 /\ procStopped' = procAlive
                 /\ sigLog' = logSignal("STOP")
                 /\ UNCHANGED <<fi, callouts>>
            ELSE /\ canPost
                 /\ fi' = setPaused(fi, FALSE)
                 /\ callouts' = post(callouts, "Resumed")
                 /\ UNCHANGED <<processPaused, procStopped, sigLog>>
         /\ UNCHANGED <<termSent, termCalls>>

\* resumeProcess(): SIGCONT, unless not paused
resumeProcess ==
  IF ~processPaused
  THEN UNCHANGED slotVars
  ELSE \E delivered \in BOOLEAN :
         /\ strayKill' = (strayKill \/ ~pidValid)
         /\ killFailed' = IF delivered THEN "none" ELSE "CONT"
         /\ IF delivered
            THEN /\ processPaused' = FALSE
                 /\ procStopped' = FALSE
                 /\ sigLog' = logSignal("CONT")
                 /\ UNCHANGED fi
            ELSE /\ fi' = setPaused(fi, TRUE)
                 /\ UNCHANGED <<processPaused, procStopped, sigLog>>
         /\ UNCHANGED <<termSent, termCalls, callouts>>

\* faulty variant: canceled() is connected to the slot twice, so one
\* cancellation runs process.terminate() twice
cancelProcessConnectedTwice ==
  /\ termCalls' = termCalls + 2
  /\ termSent' = (termSent \/ procAlive)
  /\ UNCHANGED <<fi, processPaused, procStopped, sigLog, strayKill, killFailed, callouts>>

\* cancelProcess(): process.terminate()
cancelProcess ==
  /\ termCalls' = termCalls + 1
  /\ termSent' = (termSent \/ procAlive)
  /\ UNCHANGED <<fi, processPaused, procStopped, sigLog, strayKill, killFailed, callouts>>

(***************************************************************************)
(* The worker's local event loop (localLoop.exec() in run()).              *)
(***************************************************************************)
\* the loop is running and is not inside a handler
loopIdle == pc = "waiting" /\ sending = <<>>

\* variables no handler of the event loop changes, apart from those it names
loopFrame ==
  UNCHANGED <<unixBuild, requeued, pc, procAlive, procError, exitCode, stderrBuf,
              stderrText, notifPending, startCalls>>

\* faulty variant: the timer is connected and started on every platform
pollPauseTimerAllPlatforms ==
  /\ loopIdle
  /\ pauseProcess
  /\ UNCHANGED <<progressValue, pendingCallOutEvents, sending, lastEv, evCount,
                 diagnostics>>
  /\ loopFrame

\* pollPauseTimer timeout (every 500 ms, Q_OS_UNIX only): pauseProcess()
pollPauseTimer ==
  /\ loopIdle
  /\ unixBuild
  /\ pauseProcess
  /\ UNCHANGED <<progressValue, pendingCallOutEvents, sending, lastEv, evCount,
                 diagnostics>>
  /\ loopFrame

\* futureWatcher receives a posted call-out event: held back while the future
\* is paused; a Resumed event is sent first, followed by the events held back
futureWatcherEvent ==
  /\ loopIdle
  /\ callouts # <<>>
  /\ LET ev == Head(callouts)
     IN /\ callouts' = Tail(callouts)
        /\ IF isPaused(fi)
           THEN /\ pendingCallOutEvents' = Append(pendingCallOutEvents, ev)
                /\ UNCHANGED sending
           ELSE IF ev = "Resumed"
           THEN /\ sending' = <<ev>> \o pendingCallOutEvents
                /\ pendingCallOutEvents' = <<>>
           ELSE /\ sending' = <<ev>>
                /\ UNCHANGED pendingCallOutEvents
  /\ UNCHANGED <<fi, processPaused, procStopped, termSent, termCalls, sigLog,
                 strayKill, killFailed, progressValue, lastEv, evCount, diagnostics>>
  /\ loopFrame

\* futureWatcher emits the signal of one call-out event: canceled() is connected
\* to cancelProcess(), resumed() (not emitted on a canceled future) to
\* resumeProcess() under Q_OS_UNIX
sendCallOutEvent ==
  /\ pc = "waiting"
  /\ sending # <<>>
  /\ sending' = Tail(sending)
  /\ IF Head(sending) = "Canceled"
     THEN cancelProcess
     ELSE IF ~isCanceled(fi) /\ unixBuild
     THEN resumeProcess
     ELSE UNCHANGED slotVars
  /\ UNCHANGED <<progressValue, pendingCallOutEvents, lastEv, evCount, diagnostics>>
  /\ loopFrame

\* variables no event of the progress event source changes
filterFrame ==
  /\ UNCHANGED <<processPaused, procStopped, termSent, termCalls, sigLog,
                 strayKill, killFailed, callouts, pendingCallOutEvents, sending>>
  /\ loopFrame

\* the progress event source delivers events while the process has been started
canFilter == loopIdle /\ procAlive /\ evCount < MaxEvents

\* filterStarted(name, comment)
filterStarted ==
  /\ canFilter
  /\ \E name \in Names :
       /\ progressValue' = incrementProgress(progressValue)
       /\ fi' = setProgressValueAndText(fi, progressValue', name)
       /\ lastEv' = [kind |-> "Started", num |-> 0, name |-> name]
  /\ evCount' = evCount + 1
  /\ UNCHANGED diagnostics
  /\ filterFrame

\* filterProgress(progress), progress = num / FracDen
filterProgress ==
  /\ canFilter
  /\ \E num \in 0..FracDen :
       /\ progressValue' = updateProgress(num)
       /\ fi' = setProgressValue(fi, progressValue')
       /\ lastEv' = [kind |-> "Progress", num |-> num, name |-> ""]
  /\ evCount' = evCount + 1
  /\ UNCHANGED diagnostics
  /\ filterFrame

\* filterFinished(name)
filterFinished ==
  /\ canFilter
  /\ \E name \in Names :
       /\ progressValue' = incrementProgress(progressValue)
       /\ fi' = setProgressValueAndText(fi, progressValue', "Finished: " \o name)
       /\ lastEv' = [kind |-> "Finished", num |-> 0, name |-> name]
  /\ evCount' = evCount + 1
  /\ UNCHANGED diagnostics
  /\ filterFrame

\* faulty variant: a parse error is reported as the failure of the task
filterXmlErrorReportsFailure ==
  /\ canFilter
  /\ \E error \in XmlErrors :
       /\ diagnostics' = diagnostics \cup {"[Module " \o location \o "]: " \o error}
       /\ lastEv' = [kind |-> "Error", num |-> 0, name |-> error]
       /\ fi' = reportException(fi, ctkCmdLineModuleRunException(location, 0, error))
  /\ evCount' = evCount + 1
  /\ UNCHANGED progressValue
  /\ filterFrame

\* filterXmlError(error): a debug line "[Module <location>]: <error>"
filterXmlError ==
  /\ canFilter
  /\ \E error \in XmlErrors :
       /\ diagnostics' = diagnostics \cup {"[Module " \o location \o "]: " \o error}
       /\ lastEv' = [kind |-> "Error", num |-> 0, name |-> error]
  /\ evCount' = evCount + 1
  /\ UNCHANGED <<fi, progressValue>>
  /\ filterFrame


(***************************************************************************)
(* The external process as QProcess reports it to the event loop.          *)
(***************************************************************************)
\* finished(int) or error(Crashed): a process that is not suspended ends, and
\* localLoop.quit() makes localLoop.exec() return
processFinished ==
  /\ loopIdle
  /\ procAlive
  /\ ~procStopped
  /\ \E code \in ExitCodes, text \in StderrTexts, err \in {"UnknownError", "Crashed"} :
       /\ exitCode' = code
       /\ stderrBuf' = text
       /\ stderrText' = text
       /\ procError' = err
  /\ procAlive' = FALSE
  /\ pc' = "classify"
  /\ callouts' = <<>>
  /\ pendingCallOutEvents' = <<>>
  /\ UNCHANGED <<unixBuild, requeued, fi, progressValue, processPaused,
                 sending, procStopped, termSent,
                 notifPending, startCalls, termCalls, sigLog, strayKill, killFailed, lastEv,
                 evCount, diagnostics>>

\* error(FailedToStart) raised from the event loop: localLoop.quit() makes
\* localLoop.exec() return
processFailedToStart ==
  /\ loopIdle
  /\ notifPending
  /\ notifPending' = FALSE
  /\ procError' = "FailedToStart"
  /\ pc' = "classify"
  /\ callouts' = <<>>
  /\ pendingCallOutEvents' = <<>>
  /\ UNCHANGED <<unixBuild, requeued, fi, progressValue, processPaused,
                 sending, procAlive, procStopped,
                 termSent, exitCode, stderrBuf, stderrText, startCalls, termCalls,
                 sigLog, strayKill, killFailed, lastEv, evCount, diagnostics>>

(***************************************************************************)
(* ctkCmdLineModuleProcessTask::run() on the pool worker.                  *)
(***************************************************************************)
\* variables only the event loop and the process change
runFrame ==
  UNCHANGED <<unixBuild, requeued, procStopped, termSent, termCalls, sigLog, strayKill, killFailed,
              lastEv, evCount, diagnostics, pendingCallOutEvents, sending>>

\* faulty variant: run() does not look at the canceled flag before spawning
runNoCanceledCheck ==
  /\ pc = "queued"
  /\ pc' = "spawn"
  /\ UNCHANGED <<fi, progressValue, processPaused, callouts, procAlive,
                 procError, exitCode, stderrBuf, stderrText, notifPending,
                 startCalls>>
  /\ runFrame

\* if (this->isCanceled()) { this->reportFinished(); return; }
runCanceledCheck ==
  /\ pc = "queued"
  /\ IF isCanceled(fi)
     THEN /\ fi' = reportFinished(fi)
          /\ pc' = "done"
     ELSE /\ UNCHANGED fi
          /\ pc' = "spawn"
  /\ UNCHANGED <<progressValue, processPaused, callouts, procAlive,
                 procError, exitCode, stderrBuf, stderrText, notifPending,
                 startCalls>>
  /\ runFrame

\* process.start(location, args): the process runs; or the failure to start is
\* notified later from the event loop (Q_OS_UNIX: the child reports it); or
\* error(FailedToStart) is emitted inside start(), where the quit() it is
\* connected to has no effect because localLoop.exec() has not begun
runProcessStart ==
  /\ pc = "spawn"
  /\ startCalls' = startCalls + 1
  /\ \E how \in {"started", "failLater", "failNow"} :
       /\ how = "failLater" => unixBuild
       /\ procAlive' = (how = "started")
       /\ notifPending' = (how = "failLater")
       /\ procError' = IF how = "failNow" THEN "FailedToStart" ELSE procError
  /\ pc' = "attach"
  /\ UNCHANGED <<fi, progressValue, processPaused, callouts, exitCode,
                 stderrBuf, stderrText>>
  /\ runFrame

\* ctkCmdLineModuleProcessWatcher progressWatcher(process, location, *this):
\* setFuture() posts the call-out events of the state the future is already in
runAttachWatcher ==
  /\ pc = "attach"
  /\ progressValue' = 0
  /\ processPaused' = FALSE
  /\ callouts' = IF isCanceled(fi) THEN <<"Canceled">> ELSE <<>>
  /\ pc' = "waiting"
  /\ UNCHANGED <<fi, procAlive, procError, exitCode, stderrBuf, stderrText,
                 notifPending, startCalls>>
  /\ runFrame

\* faulty variant: the exit code is examined before the process error
runClassifyExitCodeFirst ==
  /\ pc = "classify"
  /\ IF exitCode # 0
     THEN /\ fi' = reportException(fi,
                     ctkCmdLineModuleRunException(location, exitCode, stderrBuf))
          /\ stderrBuf' = ""
     ELSE IF procError # "UnknownError"
     THEN /\ fi' = reportException(fi,
                     ctkCmdLineModuleRunException(location, exitCode, errorString(procError)))
          /\ UNCHANGED stderrBuf
     ELSE UNCHANGED <<fi, stderrBuf>>
  /\ pc' = "final"
  /\ UNCHANGED <<progressValue, processPaused, callouts, procAlive,
                 procError, exitCode, stderrText, notifPending, startCalls>>
  /\ runFrame

\* if (process.error() != UnknownError) reportException(.., errorString())
\* else if (process.exitCode() != 0) reportException(.., readAllStandardError())
runClassify ==
  /\ pc = "classify"
  /\ IF procError # "UnknownError"
     THEN /\ fi' = reportException(fi,
                     ctkCmdLineModuleRunException(location, exitCode, errorString(procError)))
          /\ UNCHANGED stderrBuf
     ELSE IF exitCode # 0
     THEN /\ fi' = reportException(fi,
                     ctkCmdLineModuleRunException(location, exitCode, stderrBuf))
          /\ stderrBuf' = ""
     ELSE UNCHANGED <<fi, stderrBuf>>
  /\ pc' = "final"
  /\ UNCHANGED <<progressValue, processPaused, callouts, procAlive,
                 procError, exitCode, stderrText, notifPending, startCalls>>
  /\ runFrame

\* this->setProgressValueAndText(1000, process.readAllStandardError())
runFinalProgress ==
  /\ pc = "final"
  /\ fi' = setProgressValueAndText(fi, ProgressMax, stderrBuf)
  /\ stderrBuf' = ""
  /\ pc' = "finish"
  /\ UNCHANGED <<progressValue, processPaused, callouts, procAlive,
                 procError, exitCode, stderrText, notifPending, startCalls>>
  /\ runFrame

\* this->reportFinished(); the watcher is destroyed when run() returns
runReportFinished ==
  /\ pc = "finish"
  /\ fi' = reportFinished(fi)
  /\ callouts' = <<>>
  /\ pc' = "done"
  /\ UNCHANGED <<progressValue, processPaused, procAlive, procError,
                 exitCode, stderrBuf, stderrText, notifPending, startCalls,
                 unixBuild, requeued, procStopped, termSent, termCalls, sigLog, strayKill, killFailed,
                 lastEv, evCount, diagnostics, sending>>
  /\ pendingCallOutEvents' = <<>>

\* the steps of run() on the worker
run ==
  \/ runCanceledCheck
  \/ runProcessStart
  \/ runAttachWatcher
  \/ runClassify
  \/ runFinalProgress
  \/ runReportFinished

Next ==
  \/ start
  \/ futureCancel
  \/ futurePause
  \/ futureResume
  \/ runCanceledCheck
  \/ runProcessStart
  \/ runAttachWatcher
  \/ runClassify
  \/ runFinalProgress
  \/ runReportFinished
  \/ pollPauseTimer
  \/ futureWatcherEvent
  \/ sendCallOutEvent
  \/ filterStarted
  \/ filterProgress
  \/ filterFinished
  \/ filterXmlError
  \/ processFinished
  \/ processFailedToStart

Spec == Init /\ [][Next]_vars

\* the pool runs a queued task, a worker that is not blocked takes its next
\* step, and a running event loop handles the events that are ready
FairSpec ==
  /\ Spec
  /\ WF_vars(run)
  /\ WF_vars(processFailedToStart)
  /\ WF_vars(futureWatcherEvent)
  /\ WF_vars(sendCallOutEvent)

\* FairSpec, and pollPauseTimer (started with an interval of 500 ms by the
\* watcher's constructor) times out again and again while the loop runs
FairPollSpec ==
  /\ FairSpec
  /\ WF_vars(pollPauseTimer)

(***************************************************************************)
(* start() called more than once.  Spec has start() called once per task,  *)
(* as the local-process backend does; StartTwiceSpec adds a caller that    *)
(* calls start() again on a task that has not run to its end.  The pool    *)
(* then holds the runnable a second time and executes run() again; the     *)
(* schedule modelled is the one where it does so after the first           *)
(* execution has returned.                                                 *)
(***************************************************************************)
\* start() once more: reportStarted() (without effect now), and the task is
\* queued again
startAgain ==
  /\ pc \notin {"pending", "done"}
  /\ ~requeued
  /\ startCalls < MaxStarts
  /\ fi' = reportStarted(fi)
  /\ requeued' = TRUE
  /\ UNCHANGED <<unixBuild, pc, progressValue, processPaused, callouts,
                 pendingCallOutEvents, sending, procAlive, procStopped, termSent,
                 procError, exitCode, stderrBuf, stderrText, notifPending,
                 startCalls, termCalls, sigLog, strayKill, killFailed, lastEv,
                 evCount, diagnostics>>

\* the second execution of run() begins: the canceled check, then a new
\* QProcess and a new QEventLoop
runAgain ==
  /\ pc = "done"
  /\ requeued
  /\ requeued' = FALSE
  /\ IF isCanceled(fi)
     THEN /\ fi' = reportFinished(fi)
          /\ pc' = "done"
          /\ UNCHANGED <<procError, exitCode, stderrBuf, stderrText, procStopped,
                         termSent, notifPending>>
     ELSE /\ UNCHANGED fi
          /\ pc' = "spawn"
          /\ procError' = "UnknownError"
          /\ exitCode' = 0
          /\ stderrBuf' = ""
          /\ stderrText' = ""
          /\ procStopped' = FALSE
          /\ termSent' = FALSE
          /\ notifPending' = FALSE
  /\ UNCHANGED <<unixBuild, progressValue, processPaused, callouts,
                 pendingCallOutEvents, sending, procAlive, startCalls, termCalls,
                 sigLog, strayKill, killFailed, lastEv, evCount, diagnostics>>

NextStartTwice ==
  \/ Next
  \/ startAgain
  \/ runAgain

StartTwiceSpec == Init /\ [][NextStartTwice]_vars


(***************************************************************************)
(* Properties.                                                             *)
(***************************************************************************)
\* the terminal outcome a caller reads from the future
Outcome ==
  IF ~isFinished(fi) THEN "none"
  ELSE IF fi.exception.has THEN "exception"
  ELSE IF isCanceled(fi) THEN "canceled"
  ELSE "success"

\* run() has not reached its event loop
beforeRunning == pc \in {"pending", "queued", "spawn", "attach"}

\* C1 (as stated): the progress value read from the future is in 0..1000, is 0
\* before the task runs, and is 1000 only once the task is finished.
C1_ProgressSentinels ==
  /\ fi.progressValue \in ProgressMin..ProgressMax
  /\ beforeRunning => fi.progressValue = ProgressMin
  /\ fi.progressValue = ProgressMax => isFinished(fi)

\* C1 (amended): the progress value read from the future is in 0..1000 and is 0
\* before the task runs; it is 1000 only after the process has ended with exit
\* code 0 and without process error and run() has made its final progress
\* report, which it makes before reportFinished(): no exception is stored then,
\* but the future may not be finished yet.
C1_ProgressSentinelsAmended ==
  /\ fi.progressValue \in ProgressMin..ProgressMax
  /\ beforeRunning => fi.progressValue = ProgressMin
  /\ fi.progressValue = ProgressMax =>
       /\ pc \in {"finish", "done"}
       /\ ~procAlive
       /\ procError = "UnknownError"
       /\ exitCode = 0
       /\ ~fi.exception.has

C1_Witness == pc = "done" /\ fi.progressValue = ProgressMax /\ isFinished(fi)

\* C2: a task canceled while it is queued never calls process.start(), and the
\* worker that picks it up leaves it finished and canceled, without exception.
C2_CancelWhileQueued ==
  /\ []((pc = "queued" /\ isCanceled(fi)) => [](startCalls = 0))
  /\ (pc = "queued" /\ isCanceled(fi))
       ~> (pc = "done" /\ Outcome = "canceled" /\ startCalls = 0)

C2_Witness == pc = "done" /\ Outcome = "canceled" /\ startCalls = 0 /\ termCalls = 0

\* C3: process.terminate() is called at most once for the task's cancellation,
\* and once the process of a canceled task has ended the task becomes finished.
C3_TerminateOnce ==
  /\ [](termCalls <= 1)
  /\ (isCanceled(fi) /\ pc = "classify") ~> (pc = "done" /\ isFinished(fi))

C3_Witness == pc = "done" /\ termCalls = 1 /\ termSent /\ Outcome = "canceled"

\* C4 (as stated): a finished future stays finished and its terminal outcome
\* (success, exception or canceled) never changes afterwards.
C4_OutcomeStable ==
  /\ [][isFinished(fi) => isFinished(fi')]_vars
  /\ [][Outcome # "none" => Outcome' = Outcome]_vars

\* the exception run() reports for the way the process ended
endingException ==
  IF procError # "UnknownError"
  THEN ctkCmdLineModuleRunException(location, exitCode, errorString(procError))
  ELSE ctkCmdLineModuleRunException(location, exitCode, stderrText)

\* the process ended with a process error or a non-zero exit code
badEnding == procError # "UnknownError" \/ exitCode # 0

\* C5 (as stated): once run() has returned after a process ended, the outcome is
\* the exception for the process error or, failing that, for a non-zero exit
\* code with the error-stream text; after a clean exit with code 0 no
\* exception is stored.
C5_Classification ==
  (pc = "done" /\ startCalls > 0) =>
     IF badEnding THEN fi.exception = endingException ELSE ~fi.exception.has

\* C5 (amended): the classification holds for a task that is not canceled when
\* run() classifies the ending: a stored exception is the one for the ending
\* (process error before exit code), success implies a clean exit with code 0,
\* and a bad ending without stored exception occurs only on a canceled task.
C5_ClassificationAmended ==
  pc \in {"final", "finish", "done"} =>
     /\ fi.exception.has => (badEnding /\ fi.exception = endingException)
     /\ (badEnding /\ ~fi.exception.has) => isCanceled(fi)
     /\ Outcome = "success" => ~badEnding

C5_Witness ==
  /\ pc = "done"
  /\ procError = "Crashed"
  /\ exitCode # 0
  /\ fi.exception = ctkCmdLineModuleRunException(location, exitCode, "Process crashed")

\* process.start() has failed
spawnFailed == pc \in {"attach", "waiting"} /\ ~procAlive

\* C6 (as stated): when the executable cannot be started no progress value or
\* text is delivered to the future, the worker's wait for the failure can end,
\* and run() returns with the failed-to-start exception stored (or with a task
\* the caller canceled).
C6_SpawnFailure ==
  /\ spawnFailed => (fi.progressValue = ProgressMin /\ fi.progressText = "")
  /\ (spawnFailed /\ loopIdle) => ENABLED processFailedToStart
  /\ (pc = "done" /\ procError = "FailedToStart") =>
       \/ fi.exception =
            ctkCmdLineModuleRunException(location, 0, errorString("FailedToStart"))
       \/ (~fi.exception.has /\ isCanceled(fi))

\* round(num / FracDen * 1000), halves rounded up
rounded(num) == (2 * num * ProgressScale + FracDen) \div (2 * FracDen)

\* clamp(v, 1, 999)
clamp(v) == IF v < ProgressLow THEN ProgressLow ELSE IF v > ProgressHigh THEN ProgressHigh ELSE v

\* an event of the given kinds is handled in this step
handled(kinds) == evCount' = evCount + 1 /\ lastEv'.kind \in kinds

\* C7 (as stated): after a Progress{f} event the watcher's progress value is
\* clamp(round(f * 1000), 1, 999).
C7_ProgressRounded ==
  lastEv.kind = "Progress" => progressValue = clamp(rounded(lastEv.num))

\* C7 (amended): a Progress{f} event sets the watcher's progress value to
\* clamp(trunc(f * 1000), 1, 999) whatever it was before, and passes it to the
\* future, which takes it (with an empty text) only if it exceeds the future's
\* current value and the future is neither canceled nor finished.
C7_ProgressTruncated ==
  [][handled({"Progress"}) =>
       LET v == clamp((lastEv'.num * ProgressScale) \div FracDen)
       IN /\ progressValue' = v
          /\ fi' = IF fi.progressValue >= v \/ isCanceled(fi) \/ isFinished(fi)
                   THEN fi
                   ELSE [fi EXCEPT !.progressValue = v, !.progressText = ""]]_vars

C7_Witness ==
  /\ lastEv.kind = "Progress"
  /\ lastEv.num = 0
  /\ progressValue = ProgressLow
  /\ fi.progressValue > progressValue

\* the status text of a Started or Finished event
eventText(ev) == IF ev.kind = "Started" THEN ev.name ELSE "Finished: " \o ev.name

\* C8 (as stated): a Started or Finished event on a task that is not canceled
\* sets the progress counter to min(previous + 1, 999) and the future's status
\* text to the event's text.
C8_IncrementAndText ==
  [][(handled({"Started", "Finished"}) /\ ~isCanceled(fi)) =>
       /\ progressValue' = clamp(progressValue + 1)
       /\ fi'.progressText = eventText(lastEv')]_vars

\* C9: while run() is in its event loop the progress value of the future never
\* decreases, whatever events the progress event source delivers.
C9_ProgressMonotone ==
  [][pc = "waiting" => fi'.progressValue >= fi.progressValue]_vars

C9_Witness ==
  /\ pc = "waiting"
  /\ lastEv.kind = "Progress"
  /\ progressValue < fi.progressValue

\* C10: no two stop signals are delivered without a continue signal delivered
\* between them, and processPaused is set exactly when the last signal
\* delivered is a stop signal.
C10_NoRepeatedStop ==
  /\ \A i \in 1..(Len(sigLog) - 1) : ~(sigLog[i] = "STOP" /\ sigLog[i + 1] = "STOP")
  /\ processPaused <=> (sigLog # <<>> /\ sigLog[Len(sigLog)] = "STOP")

C10_Witness ==
  /\ Len(sigLog) = 3
  /\ sigLog[1] = "STOP"
  /\ sigLog[2] = "CONT"
  /\ sigLog[3] = "STOP"
  /\ processPaused

\* the future apart from its Paused flag: what decides the terminal outcome
lifecycle(f) == [f EXCEPT !.state = @ \ {"Paused"}]

\* C11: when kill(SIGSTOP) fails in pauseProcess() the future is no longer
\* paused and processPaused stays clear; when kill(SIGCONT) fails in
\* resumeProcess() the future is paused again and processPaused stays set; in
\* both cases no exception is stored and nothing of the future but its Paused
\* flag changes.
C11_SignalFailureRollback ==
  /\ [][(pollPauseTimer /\ ~processPaused /\ isPaused(fi) /\ killFailed' = "STOP") =>
          /\ ~isPaused(fi')
          /\ ~processPaused'
          /\ lifecycle(fi') = lifecycle(fi)]_vars
  /\ [][(sendCallOutEvent /\ Head(sending) = "Resumed" /\ ~isCanceled(fi)
            /\ processPaused /\ killFailed' = "CONT") =>
          /\ isPaused(fi')
          /\ processPaused'
          /\ lifecycle(fi') = lifecycle(fi)]_vars
  /\ [][killFailed' # killFailed => fi'.exception = fi.exception]_vars

C11_Witness ==
  /\ killFailed = "CONT"
  /\ processPaused
  /\ isPaused(fi)
  /\ sigLog = <<"STOP">>
  /\ ~fi.exception.has

\* a pause(), resume() or cancel() call on the future
request == futurePause \/ futureResume \/ futureCancel

\* C12: under Q_OS_UNIX, while run() waits on a live process, a paused future
\* leads to processPaused (the stop signal delivered) unless the future stops
\* being paused or the process ends first; and once no further request is
\* made on a task that is not canceled, processPaused eventually equals the
\* future's paused flag and stays equal.
C12_PauseReconciled ==
  /\ (unixBuild /\ pc = "waiting" /\ procAlive /\ isPaused(fi))
        ~> (\/ processPaused /\ sigLog # <<>> /\ sigLog[Len(sigLog)] = "STOP"
            \/ ~isPaused(fi)
            \/ ~procAlive)
  /\ (/\ <>[](unixBuild /\ pc = "waiting" /\ procAlive /\ ~isCanceled(fi))
      /\ <>[][~request]_vars)
        => <>[](processPaused <=> isPaused(fi))

C12_Witness ==
  /\ pc = "waiting"
  /\ evCount = 0
  /\ processPaused
  /\ procStopped
  /\ isPaused(fi)
  /\ sigLog = <<"STOP", "CONT", "STOP">>

\* C13 (as stated): whatever start(), cancel(), pause() and resume() calls are
\* made on a task, process.start() is called at most once for it.
C13_SingleProcess == startCalls <= 1

\* C14 (as stated): on a finished task a cancel(), pause() or resume() call
\* causes no terminate() call and no signal, and changes neither the terminal
\* outcome nor the progress value and status text of the future.
C14_TerminalNoOps ==
  [][(isFinished(fi) /\ request) =>
       /\ termCalls' = termCalls
       /\ sigLog' = sigLog
       /\ killFailed' = killFailed
       /\ Outcome' = Outcome
       /\ fi'.progressValue = fi.progressValue
       /\ fi'.progressText = fi.progressText]_vars

\* C15: an Error{message} event changes neither the future (progress value,
\* status text, state flags, exception) nor the watcher's progress counter and
\* pause flag, nor anything run() classifies the ending by; it adds the line
\* "[Module <location>]: <message>" to the diagnostics.
C15_XmlErrorFrame ==
  [][handled({"Error"}) =>
       /\ fi' = fi
       /\ progressValue' = progressValue
       /\ processPaused' = processPaused
       /\ <<pc, procAlive, procStopped, procError, exitCode, stderrBuf>>'
            = <<pc, procAlive, procStopped, procError, exitCode, stderrBuf>>
       /\ <<termCalls, sigLog, callouts, pendingCallOutEvents, sending>>'
            = <<termCalls, sigLog, callouts, pendingCallOutEvents, sending>>
       /\ diagnostics' =
            diagnostics \cup {"[Module " \o location \o "]: " \o lastEv'.name}]_vars

C15_Witness ==
  /\ pc = "done"
  /\ lastEv.kind = "Error"
  /\ diagnostics = {"[Module prog]: bad xml"}
  /\ Outcome = "success"
  /\ fi.progressValue = ProgressMax

\* x occurs in the sequence q
InSeq(x, q) == \E i \in 1..Len(q) : q[i] = x

\* C16: in a build without Q_OS_UNIX the task does not advertise pausing, no
\* stop or continue signal is ever sent and processPaused is never set; a
\* pause() or resume() call changes nothing but the Paused flag of the future
\* (and the resumed notification, which is connected to no slot), and a
\* cancel notification held back during the pause is released by resume().
C16_NoSuspensionSupport ==
  /\ [](~unixBuild =>
          /\ ~canPause
          /\ sigLog = <<>>
          /\ killFailed = "none"
          /\ ~strayKill
          /\ ~processPaused
          /\ ~procStopped)
  /\ [][(~unixBuild /\ (futurePause \/ futureResume)) =>
          /\ lifecycle(fi') = lifecycle(fi)
          /\ <<pc, progressValue, procAlive, procError, exitCode, stderrBuf, termSent,
               termCalls, pendingCallOutEvents, sending>>'
               = <<pc, progressValue, procAlive, procError, exitCode, stderrBuf, termSent,
                   termCalls, pendingCallOutEvents, sending>>]_vars
  /\ [][(~unixBuild /\ sendCallOutEvent /\ Head(sending) = "Resumed") =>
          <<fi, pc, progressValue, procAlive, termSent, termCalls, callouts>>'
            = <<fi, pc, progressValue, procAlive, termSent, termCalls, callouts>>]_vars
  /\ []((~unixBuild /\ loopIdle /\ ~isPaused(fi) /\ InSeq("Canceled", pendingCallOutEvents))
          => InSeq("Resumed", callouts))

C16_Witness ==
  /\ ~unixBuild
  /\ pc = "waiting"
  /\ procAlive
  /\ ~isPaused(fi)
  /\ pendingCallOutEvents = <<"Resumed">>
  /\ callouts = <<"Resumed">>
  /\ ~processPaused
  /\ sigLog = <<>>

\* C17 (as stated): whenever the process has exited or reported an error,
\* localLoop.exec() can return and run() goes on to reportFinished(): a running
\* process can end and end the wait, a process that was not started has its
\* failure notification still ahead of the waiting loop, and after the wait
\* run() is never blocked.
C17_WaitReturns ==
  /\ (loopIdle /\ procAlive /\ ~procStopped) => ENABLED processFinished
  /\ (loopIdle /\ ~procAlive) => (notifPending /\ ENABLED processFailedToStart)
  /\ pc \in {"classify", "final", "finish"} => ENABLED run

\* C18 (as stated): once terminate() has been called on the live process of a
\* canceled task, the process can end and end the worker's wait, also when the
\* process was suspended by pauseProcess() before the cancel() and no resume()
\* is called.
C18_CancelWhileSuspended ==
  (loopIdle /\ isCanceled(fi) /\ procAlive /\ termSent) => ENABLED processFinished

\* C19 (as stated): pauseProcess() and resumeProcess() call kill() only while
\* process.pid() is the pid of a process of this task: never before a process
\* was spawned and never after it has exited.
C19_SignalOwnProcess == ~strayKill

\* run() is past its canceled check and has not left its event loop
pastCheck == pc \in {"spawn", "attach", "waiting"}

\* C20 (as stated): a cancel() made after run() has passed its canceled check
\* leads to a call of process.terminate(), unless the process ends and ends
\* the wait before.
C20_CancelNotLost ==
  (isCanceled(fi) /\ pastCheck) ~> (termCalls > 0 \/ ~pastCheck)

====
